---- MODULE Spec2Model ----
(***************************************************************************)
(* A model of munin-node-go (src/munin-node.go): the accept loop, the      *)
(* access guard, the per-connection command loop and the plugin executor   *)
(* with its path validation and its environment resolution.                *)
(*                                                                         *)
(* Strings of the program are sequences of one-character strings, so that  *)
(* prefix tests, splitting, trimming and path cleaning are computed the    *)
(* way the Go library computes them.  Bytes written to a connection are a  *)
(* sequence of pieces: "\n" is a newline, every other piece is a text      *)
(* without a newline.                                                      *)
(***************************************************************************)
EXTENDS Integers, Sequences, FiniteSets, TLC

(***************************************************************************)
(* strings                                                                 *)
(***************************************************************************)
NL == "\n"

IsSpace(ch) == ch \in {" ", "\t", "\r", NL}

HasPrefix(s, p) == Len(p) <= Len(s) /\ SubSeq(s, 1, Len(p)) = p

HasSuffix(s, p) == Len(p) <= Len(s) /\ SubSeq(s, Len(s) - Len(p) + 1, Len(s)) = p

RECURSIVE TrimLeft(_)
TrimLeft(s) == IF s # <<>> /\ IsSpace(Head(s)) THEN TrimLeft(Tail(s)) ELSE s

RECURSIVE TrimRight(_)
TrimRight(s) ==
  IF s # <<>> /\ IsSpace(s[Len(s)]) THEN TrimRight(SubSeq(s, 1, Len(s) - 1)) ELSE s

TrimSpace(s) == TrimRight(TrimLeft(s))

TrimPrefix(s, p) == IF HasPrefix(s, p) THEN SubSeq(s, Len(p) + 1, Len(s)) ELSE s

\* strings.Split(s, sep) for a one-character separator: k separators give
\* k+1 parts, empty parts included; Split("", sep) is one empty part.
RECURSIVE SplitAcc(_, _, _, _)
SplitAcc(s, sep, cur, acc) ==
  IF s = <<>> THEN Append(acc, cur)
  ELSE IF Head(s) = sep THEN SplitAcc(Tail(s), sep, <<>>, Append(acc, cur))
  ELSE SplitAcc(Tail(s), sep, Append(cur, Head(s)), acc)

Split(s, sep) == SplitAcc(s, sep, <<>>, <<>>)

\* strings.Join(parts, sep), sep a string
RECURSIVE Join(_, _)
Join(parts, sep) ==
  IF parts = <<>> THEN <<>>
  ELSE IF Len(parts) = 1 THEN parts[1]
  ELSE parts[1] \o sep \o Join(Tail(parts), sep)

\* index of the first occurrence of the character ch in s, 0 if none
RECURSIVE IndexFrom(_, _, _)
IndexFrom(s, ch, i) ==
  IF i > Len(s) THEN 0 ELSE IF s[i] = ch THEN i ELSE IndexFrom(s, ch, i + 1)

\* strings.SplitN(s, " ", 2)
SplitN2(s) ==
  LET i == IndexFrom(s, " ", 1)
  IN IF i = 0 THEN <<s>> ELSE <<SubSeq(s, 1, i - 1), SubSeq(s, i + 1, Len(s))>>

\* strings.Fields(s): the maximal runs of non-space characters
RECURSIVE FieldsAcc(_, _, _)
FieldsAcc(s, cur, acc) ==
  IF s = <<>> THEN (IF cur = <<>> THEN acc ELSE Append(acc, cur))
  ELSE IF IsSpace(Head(s))
       THEN FieldsAcc(Tail(s), <<>>, IF cur = <<>> THEN acc ELSE Append(acc, cur))
       ELSE FieldsAcc(Tail(s), Append(cur, Head(s)), acc)

Fields(s) == FieldsAcc(s, <<>>, <<>>)

(***************************************************************************)
(* path/filepath                                                           *)
(***************************************************************************)
Slash == <<"/">>
Dot == <<".">>
DotDot == <<".", ".">>

IsAbs(path) == HasPrefix(path, Slash)

\* the segment stack of filepath.Clean: "" and "." are dropped, ".." pops
\* a segment, is dropped at the root, and is kept in a relative path with
\* nothing left to pop
RECURSIVE CleanSegs(_, _, _)
CleanSegs(segs, rooted, out) ==
  IF segs = <<>> THEN out
  ELSE LET s == Head(segs)
       IN IF s = <<>> \/ s = Dot THEN CleanSegs(Tail(segs), rooted, out)
          ELSE IF s = DotDot
               THEN IF out # <<>> /\ out[Len(out)] # DotDot
                    THEN CleanSegs(Tail(segs), rooted, SubSeq(out, 1, Len(out) - 1))
                    ELSE IF rooted THEN CleanSegs(Tail(segs), rooted, out)
                    ELSE CleanSegs(Tail(segs), rooted, Append(out, s))
               ELSE CleanSegs(Tail(segs), rooted, Append(out, s))

Clean(path) ==
  IF path = <<>> THEN Dot
  ELSE LET rooted == IsAbs(path)
           body == Join(CleanSegs(Split(path, "/"), rooted, <<>>), Slash)
       IN IF rooted THEN Slash \o body
          ELSE IF body = <<>> THEN Dot ELSE body

\* filepath.Join(a, b): empty elements are ignored, the rest is joined by
\* "/" and cleaned
PathJoin(a, b) ==
  IF a = <<>> /\ b = <<>> THEN <<>>
  ELSE IF a = <<>> THEN Clean(b)
  ELSE IF b = <<>> THEN Clean(a)
  ELSE Clean(a \o Slash \o b)

\* the working directory of the daemon
Cwd == <<"/", "w">>

Abs(path) == IF IsAbs(path) THEN Clean(path) ELSE PathJoin(Cwd, path)

(***************************************************************************)
(* regexp.MatchString, for the patterns of an allow list: literals,        *)
(* "\c" escapes, ".", "x*", "^" and "$".  A pattern is malformed when a    *)
(* "(" or "[" is left unclosed, a ")" closes nothing, a "\" ends the       *)
(* pattern or a "*" has nothing to repeat.  (Patterns with closed groups   *)
(* or classes are outside the modelled fragment and are not used.)         *)
(***************************************************************************)
ReErr == [ok |-> FALSE, atoms |-> <<>>]

RECURSIVE CompileAcc(_, _)
CompileAcc(p, acc) ==
  IF p = <<>> THEN [ok |-> TRUE, atoms |-> acc]
  ELSE LET c == Head(p)
           atom(k, ch) == [k |-> k, c |-> ch, star |-> FALSE]
       IN IF c \in {"(", ")", "[", "]"} THEN ReErr
          ELSE IF c = "\\"
               THEN IF Len(p) = 1 THEN ReErr
                    ELSE CompileAcc(SubSeq(p, 3, Len(p)), Append(acc, atom("lit", p[2])))
          ELSE IF c = "*"
               THEN IF acc = <<>> \/ acc[Len(acc)].star \/ acc[Len(acc)].k \in {"bol", "eol"}
                    THEN ReErr
                    ELSE CompileAcc(Tail(p), [acc EXCEPT ![Len(acc)].star = TRUE])
          ELSE IF c = "^" THEN CompileAcc(Tail(p), Append(acc, atom("bol", c)))
          ELSE IF c = "$" THEN CompileAcc(Tail(p), Append(acc, atom("eol", c)))
          ELSE IF c = "." THEN CompileAcc(Tail(p), Append(acc, atom("any", c)))
          ELSE CompileAcc(Tail(p), Append(acc, atom("lit", c)))

Compile(p) == CompileAcc(p, <<>>)

AtomMatches(a, ch) == (a.k = "any" /\ ch # NL) \/ (a.k = "lit" /\ a.c = ch)

\* does the atom sequence from position j match the text starting at i
RECURSIVE MatchHere(_, _, _, _)
MatchHere(atoms, j, text, i) ==
  IF j > Len(atoms) THEN TRUE
  ELSE LET a == atoms[j]
       IN IF a.k = "bol" THEN i = 1 /\ MatchHere(atoms, j + 1, text, i)
          ELSE IF a.k = "eol" THEN i = Len(text) + 1 /\ MatchHere(atoms, j + 1, text, i)
          ELSE IF a.star
               THEN \E n \in 0..(Len(text) + 1 - i) :
                      /\ \A m \in i..(i + n - 1) : AtomMatches(a, text[m])
                      /\ MatchHere(atoms, j + 1, text, i + n)
               ELSE /\ i <= Len(text)
                    /\ AtomMatches(a, text[i])
                    /\ MatchHere(atoms, j + 1, text, i + 1)

\* regexp.MatchString(pattern, s): [err, match]; a match anywhere in s
MatchString(pattern, s) ==
  LET re == Compile(pattern)
  IN IF ~re.ok THEN [err |-> TRUE, match |-> FALSE]
     ELSE [err |-> FALSE,
           match |-> \E i \in 1..(Len(s) + 1) : MatchHere(re.atoms, 1, s, i)]

(***************************************************************************)
(* Access guard                                                            *)
(***************************************************************************)
\* the loop of isAllowedIP from pattern i on: a pattern that does not
\* compile is reported and skipped, the first match returns true
RECURSIVE isAllowedFrom(_, _, _)
\* the slip of returning on a malformed pattern instead of skipping it
isAllowedFromAbort(clientIP, allowedPatterns, i) ==
  IF i > Len(allowedPatterns) THEN FALSE
  ELSE LET r == MatchString(allowedPatterns[i], clientIP)
       IN IF r.err THEN FALSE
          ELSE IF r.match THEN TRUE
          ELSE isAllowedFrom(clientIP, allowedPatterns, i + 1)

isAllowedFrom(clientIP, allowedPatterns, i) ==
  IF i > Len(allowedPatterns) THEN FALSE
  ELSE LET r == MatchString(allowedPatterns[i], clientIP)
       IN IF r.err THEN isAllowedFrom(clientIP, allowedPatterns, i + 1)
          ELSE IF r.match THEN TRUE
          ELSE isAllowedFrom(clientIP, allowedPatterns, i + 1)

isAllowedIP(clientIP, allowedPatterns) == isAllowedFrom(clientIP, allowedPatterns, 1)

(***************************************************************************)
(* The node configuration (nodeConf after readNodeConfig) and the files    *)
(* the daemon runs against.                                                *)
(***************************************************************************)
lineMax == 2048

HostName == "node1"

\* allow (         -- does not compile
\* allow ^10\.
AllowedIPs == << <<"(">>, <<"^", "1", "0", "\\", ".">> >>

PluginFolder == <<"/", "p">>

\* plugins_config: the lines of the plugin-configuration file
PluginConfig ==
  << <<"[", "z", "_", "*", "]">>,
     <<"e", "n", "v", ".", "Z", " ", "1">>,
     <<"e", "n", "v", ".", "B">>,
     <<"#", " ", "c">>,
     <<"[", "x", "_", "*", "]">>,
     <<"e", "n", "v", ".", "K", " ", "1">>,
     <<"e", "n", "v", ".", "A", " ", "1">>,
     <<"[", "*", "]">>,
     <<"e", "n", "v", ".", "G", " ", "0">>,
     <<"[", "y", "_", "*", "]">>,
     <<"e", "n", "v", ".", "K", " ", " ", "2">> >>

\* the file system: absolute path -> what lstat finds there
File == [kind |-> "file", target |-> <<>>]
Dir == [kind |-> "dir", target |-> <<>>]
Link(t) == [kind |-> "symlink", target |-> t]
Missing == [kind |-> "missing", target |-> <<>>]

FS0 ==
  LET e(p, n) == <<p, n>>
      entries == { e(<<"/">>, Dir),
                   e(<<"/", "p">>, Dir),
                   e(<<"/", "p", "/", "x">>, File),
                   e(<<"/", "p", "/", "y">>, File),
                   e(<<"/", "p", "/", "z">>, File),
                   e(<<"/", "p", "/", "l">>, Link(<<"/", "o", "/", "y">>)),
                   e(<<"/", "p", "/", "k">>, Link(<<"/", "p", "/", "x">>)),
                   e(<<"/", "p", "/", "d">>, Dir),
                   e(<<"/", "p", "e">>, Dir),
                   e(<<"/", "p", "e", "/", "x">>, File),
                   e(<<"/", "o">>, Dir),
                   e(<<"/", "o", "/", "y">>, File) }
  IN [p \in {en[1] : en \in entries} |-> (CHOOSE en \in entries : en[1] = p)[2]]

\* os.Lstat: the entry itself, a symbolic link is not followed
Lstat(f, path) == IF path \in DOMAIN f THEN f[path] ELSE Missing

\* what the kernel executes for a path: symbolic links are followed
RECURSIVE RealPath(_, _, _)
RealPath(f, path, fuel) ==
  LET n == Lstat(f, path)
  IN IF n.kind = "symlink" /\ fuel > 0 THEN RealPath(f, n.target, fuel - 1) ELSE path

(***************************************************************************)
(* Plugin directory                                                        *)
(***************************************************************************)
\* the name of path under dir when path is a direct child of dir, else <<>>
ChildName(dir, path) ==
  LET pre == dir \o Slash
  IN IF HasPrefix(path, pre) /\ Len(path) > Len(pre)
        /\ IndexFrom(path, "/", Len(pre) + 1) = 0
     THEN SubSeq(path, Len(pre) + 1, Len(path))
     ELSE <<>>

\* byte order of the characters used in file names
CharOrder == <<".", "/", "a", "d", "e", "k", "l", "m", "o", "p", "x", "y", "z">>

CharRank(ch) == CHOOSE i \in 1..Len(CharOrder) : CharOrder[i] = ch

RECURSIVE StrLess(_, _)
StrLess(a, b) ==
  IF b = <<>> THEN FALSE
  ELSE IF a = <<>> THEN TRUE
  ELSE IF Head(a) = Head(b) THEN StrLess(Tail(a), Tail(b))
  ELSE CharRank(Head(a)) < CharRank(Head(b))

\* ioutil.ReadDir returns the entries sorted by file name
RECURSIVE SortNames(_)
SortNames(S) ==
  IF S = {} THEN <<>>
  ELSE LET m == CHOOSE a \in S : \A b \in S \ {a} : StrLess(a, b)
       IN <<m>> \o SortNames(S \ {m})

ReadDir(f, dir) ==
  SortNames({ChildName(dir, p) : p \in {q \in DOMAIN f : ChildName(dir, q) # <<>>}})

\* the loop of listPlugins: the names of the entries that are not directories
RECURSIVE NonDirs(_, _, _)
NonDirs(f, dir, names) ==
  IF names = <<>> THEN <<>>
  ELSE (IF Lstat(f, dir \o Slash \o Head(names)).kind # "dir" THEN <<Head(names)>> ELSE <<>>)
       \o NonDirs(f, dir, Tail(names))

\* listPlugins: "" when the directory cannot be read, else the names joined
\* by one space, followed by a newline
listPlugins(f, readable) ==
  IF ~readable THEN <<>>
  ELSE Join(NonDirs(f, PluginFolder, ReadDir(f, PluginFolder)), <<" ">>) \o <<NL>>

(***************************************************************************)
(* Environment resolver                                                    *)
(***************************************************************************)
Star == <<"*">>
UnderStar == <<"_", "*">>

\* generatePossibleSections: "*", then the joined prefixes of i tokens with
\* "_*" appended, for i from the number of tokens down to 1
RECURSIVE PrefixSections(_, _)
PrefixSections(parts, i) ==
  IF i = 0 THEN <<>>
  ELSE <<Join(SubSeq(parts, 1, i), <<"_">>) \o UnderStar>> \o PrefixSections(parts, i - 1)

\* the slip of taking the bare plugin name for a section as well
generatePossibleSectionsWithName(plugin) ==
  LET parts == Split(plugin, "_")
  IN <<Star, plugin>> \o PrefixSections(parts, Len(parts))

generatePossibleSections(plugin) ==
  LET parts == Split(plugin, "_")
  IN <<Star>> \o PrefixSections(parts, Len(parts))

InSeq(x, s) == \E i \in 1..Len(s) : s[i] = x

EnvDot == <<"e", "n", "v", ".">>

\* os.Setenv refuses an empty key and a key containing "="
SetenvFails(key) == key = <<>> \/ InSeq("=", key)

\* the scanning loop of loadPluginConfig from line i on with the section
\* currentSection open, up to and including the next line that sets a
\* variable or fails, or to the end of the file:
\*   [kind |-> "set" | "error" | "eof", pos, section, key, value]
RECURSIVE ScanFrom(_, _, _, _)
ScanFrom(lines, possibleSections, i, currentSection) ==
  IF i > Len(lines)
  THEN [kind |-> "eof", pos |-> i, section |-> currentSection, key |-> <<>>, value |-> <<>>]
  ELSE LET line == TrimSpace(lines[i])
       IN IF line = <<>> \/ HasPrefix(line, <<"#">>)
          THEN ScanFrom(lines, possibleSections, i + 1, currentSection)
          ELSE IF HasPrefix(line, <<"[">>) /\ HasSuffix(line, <<"]">>)
          THEN LET section == SubSeq(line, 2, Len(line) - 1)
               IN ScanFrom(lines, possibleSections, i + 1,
                           IF InSeq(section, possibleSections) THEN section
                           ELSE currentSection)
          ELSE IF currentSection # <<>> /\ HasPrefix(line, EnvDot)
          THEN LET parts == SplitN2(line)
               IN IF Len(parts) # 2
                  THEN [kind |-> "error", pos |-> i, section |-> currentSection,
                        key |-> <<>>, value |-> <<>>]
                  ELSE LET key == TrimPrefix(parts[1], EnvDot)
                           value == TrimSpace(parts[2])
                       IN [kind |-> IF SetenvFails(key) THEN "error" ELSE "set",
                           pos |-> i, section |-> currentSection,
                           key |-> key, value |-> value]
          ELSE ScanFrom(lines, possibleSections, i + 1, currentSection)

\* os.Setenv on the environment table of the process
Setenv(e, key, value) ==
  [k \in DOMAIN e \cup {key} |-> IF k = key THEN value ELSE e[k]]

\* the environment loadPluginConfig(plugin) leaves when it runs alone from
\* line i on, starting from the table e
RECURSIVE LoadFrom(_, _, _, _, _)
LoadFrom(lines, possibleSections, i, currentSection, e) ==
  LET r == ScanFrom(lines, possibleSections, i, currentSection)
  IN IF r.kind = "set"
     THEN LoadFrom(lines, possibleSections, r.pos + 1, r.section, Setenv(e, r.key, r.value))
     ELSE [ok |-> r.kind = "eof", env |-> e]

(***************************************************************************)
(* Plugin executor: path validation                                        *)
(***************************************************************************)
\* the slip of following the link when the entry is examined (os.Stat)
validateFollowingLinks(f, pluginPath) ==
  LET absPluginPath == Abs(pluginPath)
      absAllowedDir == Abs(PluginFolder)
  IN IF ~HasPrefix(absPluginPath, absAllowedDir) THEN "outside"
     ELSE IF Lstat(f, RealPath(f, absPluginPath, 3)).kind = "missing" THEN "lstat"
     ELSE "ok"

\* the slip of leaving out the containment test
validateWithoutContainment(f, pluginPath) ==
  LET absPluginPath == Abs(pluginPath)
  IN IF Lstat(f, absPluginPath).kind = "missing" THEN "lstat"
     ELSE IF Lstat(f, absPluginPath).kind = "symlink" THEN "symlink"
     ELSE "ok"

\* validatePluginPath: "ok", or the check that refused the path
validatePluginPath(f, pluginPath) ==
  LET absPluginPath == Abs(pluginPath)
      absAllowedDir == Abs(PluginFolder)
  IN IF ~HasPrefix(absPluginPath, absAllowedDir) THEN "outside"
     ELSE IF Lstat(f, absPluginPath).kind = "missing" THEN "lstat"
     ELSE IF Lstat(f, absPluginPath).kind = "symlink" THEN "symlink"
     ELSE "ok"

(***************************************************************************)
(* Bounds of the model                                                     *)
(***************************************************************************)
\* connections the listener accepts
NumConns == 2
\* lines the clients send, all connections together
MaxLines == 2
\* patterns in an allow list given to the access guard
MaxPats == 2
\* characters in a plugin name given to the builder of candidate sections
MaxName == 4

Conns == 1..NumConns

\* remote addresses: 10.1 and 9.10
ClientIPs == { <<"1", "0", ".", "1">>, <<"9", ".", "1", "0">> }

\* what a plugin may write to its standard output
PluginOutputs == { <<>>, <<"a">>, <<"a", NL>> }

S_cap == <<"c", "a", "p">>
S_version == <<"v", "e", "r", "s", "i", "o", "n">>
S_nodes == <<"n", "o", "d", "e", "s">>
S_list == <<"l", "i", "s", "t">>
S_config == <<"c", "o", "n", "f", "i", "g">>
S_fetch == <<"f", "e", "t", "c", "h">>
S_quit == <<"q", "u", "i", "t">>

\* plugin names a client asks for
PluginNames ==
  { <<"x">>, <<"y">>, <<"z">>, <<"l">>, <<"k">>, <<"d">>, <<"m">>, <<".">>, <<".", ".">>,
    <<".", ".", "/", "p", "e", "/", "x">>, <<".", ".", "/", "o", "/", "y">> }

\* a line of lineMax characters, which the scanner cannot hold
LongLine == [i \in 1..lineMax |-> "x"]

\* the lines of a client that tries every command and every plugin name
SessionLines ==
  { S_cap, S_version, S_nodes, S_list, S_quit, S_config, S_fetch,
    <<>>, <<"b", "o", "g", "u", "s">>, LongLine,
    S_config \o <<" ", "x">>, S_config \o <<" ", "y", " ", "z">> }
  \cup { S_fetch \o <<" ">> \o n : n \in PluginNames }

\* the lines of clients that use the node at the same time
SharedLines ==
  { LongLine, S_fetch \o <<" ", "x">>, S_fetch \o <<" ", "y">> }

\* what the plugins write when several clients use the node
SharedOutputs == { <<"a", NL>> }

(***************************************************************************)
(* State                                                                   *)
(***************************************************************************)
VARIABLES
  fs,        \* the file system
  env,       \* the environment table of the daemon process (os.Setenv)
  st,        \* per connection: where its socket and its handler are
  ip,        \* per connection: the remote address
  handlers,  \* per connection: session handlers started for it
  inbuf,     \* per connection: lines sent by the client and not yet read
  eof,       \* per connection: the client has closed its side
  out,       \* per connection: the bytes written to it
  why,       \* per connection: what ended the command loop
  job,       \* per connection: the executePlugin call in progress or last made
  last,      \* per connection: the last line dispatched and the reply to it
  sent,      \* lines sent by all clients
  gIP, gPats, gRes,  \* an access-guard query and its answer
  qName, qSections   \* a plugin name and the candidate sections built for it

vars == <<fs, env, st, ip, handlers, inbuf, eof, out, why, job, last, sent, gIP, gPats, gRes,
          qName, qSections>>

connVars == <<st, ip, handlers, inbuf, eof, out, why, job, last, sent>>
guardVars == <<gIP, gPats, gRes>>
sectionVars == <<qName, qSections>>

NoJob ==
  [on |-> FALSE, plugin |-> <<>>, option |-> <<>>, path |-> <<>>, pos |-> 1,
   section |-> <<>>, env0 |-> <<>>, sets |-> 0, err |-> "", exec |-> <<>>,
   seen |-> <<>>, argv |-> <<>>]

NoLine == [line |-> <<>>, reply |-> <<>>]

InitConns ==
  /\ fs = FS0
  /\ env = <<>>
  /\ st = [c \in Conns |-> "idle"]
  /\ ip = [c \in Conns |-> <<>>]
  /\ handlers = [c \in Conns |-> 0]
  /\ inbuf = [c \in Conns |-> <<>>]
  /\ eof = [c \in Conns |-> FALSE]
  /\ out = [c \in Conns |-> <<>>]
  /\ why = [c \in Conns |-> ""]
  /\ job = [c \in Conns |-> NoJob]
  /\ last = [c \in Conns |-> NoLine]
  /\ sent = 0

NoGuardQuery ==
  /\ gIP = <<>>
  /\ gPats = <<>>
  /\ gRes = "none"

NoSectionQuery ==
  /\ qName = <<>>
  /\ qSections = <<>>

Init ==
  /\ InitConns
  /\ NoGuardQuery
  /\ NoSectionQuery

Write(c, bytes) == out' = [out EXCEPT ![c] = @ \o bytes]

(***************************************************************************)
(* Listener                                                                *)
(***************************************************************************)
\* one turn of the accept loop of startNode for a connection from addr,
\* with the slip of starting the handler before the guard is asked
AcceptEager(c, addr) ==
  /\ st[c] = "idle"
  /\ \A d \in Conns : d < c => st[d] # "idle"
  /\ ip' = [ip EXCEPT ![c] = addr]
  /\ handlers' = [handlers EXCEPT ![c] = @ + 1]
  /\ st' = [st EXCEPT ![c] = IF ~isAllowedIP(addr, AllowedIPs) THEN "denied" ELSE "spawned"]
  /\ UNCHANGED <<fs, env, inbuf, eof, out, why, job, last, sent, guardVars, sectionVars>>

\* one turn of the accept loop of startNode for a connection from addr:
\* a refused connection is closed in the loop, an allowed one is handed to
\* a new goroutine
Accept(c, addr) ==
  /\ st[c] = "idle"
  /\ \A d \in Conns : d < c => st[d] # "idle"
  /\ ip' = [ip EXCEPT ![c] = addr]
  /\ IF ~isAllowedIP(addr, AllowedIPs)
     THEN /\ st' = [st EXCEPT ![c] = "denied"]
          /\ UNCHANGED handlers
     ELSE /\ st' = [st EXCEPT ![c] = "spawned"]
          /\ handlers' = [handlers EXCEPT ![c] = @ + 1]
  /\ UNCHANGED <<fs, env, inbuf, eof, out, why, job, last, sent, guardVars, sectionVars>>

(***************************************************************************)
(* Clients                                                                 *)
(***************************************************************************)
Connected(c) == st[c] \in {"spawned", "await", "resolve", "spawn", "running"}

ClientSend(c, line) ==
  /\ Connected(c)
  /\ ~eof[c]
  /\ sent < MaxLines
  /\ sent' = sent + 1
  /\ inbuf' = [inbuf EXCEPT ![c] = Append(@, line)]
  /\ UNCHANGED <<fs, env, st, ip, handlers, eof, out, why, job, last, guardVars, sectionVars>>

ClientClose(c) ==
  /\ Connected(c)
  /\ ~eof[c]
  /\ eof' = [eof EXCEPT ![c] = TRUE]
  /\ UNCHANGED <<fs, env, st, ip, handlers, inbuf, out, why, job, last, sent, guardVars, sectionVars>>

(***************************************************************************)
(* Session handler                                                         *)
(***************************************************************************)
version == "1.0.6-go"

Banner == <<"# munin node at ", HostName, NL>>
Usage == <<"# Unknown command. Try cap, list, nodes, config, fetch, version or quit", NL>>
\* fmt.Fprintln(conn, "# Unknown service\n.")
UnknownService == <<"# Unknown service", NL, ".", NL>>

\* handleConnection up to its first read: the banner
HandlerStart(c) ==
  /\ st[c] = "spawned"
  /\ Write(c, Banner)
  /\ st' = [st EXCEPT ![c] = "await"]
  /\ UNCHANGED <<fs, env, ip, handlers, inbuf, eof, why, job, last, sent, guardVars, sectionVars>>

\* a reply to a command that does not call the executor; the loop goes on
Reply(c, bytes) ==
  /\ Write(c, bytes)
  /\ job' = [job EXCEPT ![c] = NoJob]
  /\ UNCHANGED <<env, st, why>>

\* the record of an executePlugin call that has returned: the outcome is
\* kept, the environment tables of the call are gone with it
Ended(j, outcome) == [j EXCEPT !.err = outcome, !.env0 = <<>>, !.seen = <<>>]

\* the slip of ending the session when the executor fails
FailClosing(c, kind) ==
  /\ job' = [job EXCEPT ![c] = Ended(@, kind)]
  /\ st' = [st EXCEPT ![c] = "closed"]
  /\ Write(c, UnknownService)
  /\ last' = [last EXCEPT ![c].reply = @ \o UnknownService]

\* the slip of telling the client which step of the executor failed
FailDetailed(c, kind) ==
  /\ job' = [job EXCEPT ![c] = Ended(@, kind)]
  /\ st' = [st EXCEPT ![c] = "await"]
  /\ Write(c, <<"# Unknown service: ", kind, NL, ".", NL>>)
  /\ last' = [last EXCEPT ![c].reply = @ \o <<"# Unknown service: ", kind, NL, ".", NL>>]

\* executePlugin returned err: the caller answers "# Unknown service"
Fail(c, kind) ==
  /\ job' = [job EXCEPT ![c] = Ended(@, kind)]
  /\ st' = [st EXCEPT ![c] = "await"]
  /\ Write(c, UnknownService)
  /\ last' = [last EXCEPT ![c].reply = @ \o UnknownService]

\* executePlugin(plugin, option) up to the end of validatePluginPath
ExecuteStart(c, plugin, option) ==
  \E pluginPath \in {PathJoin(PluginFolder, plugin)} :
  \E v \in {validatePluginPath(fs, pluginPath)} :
  LET j == [NoJob EXCEPT !.on = TRUE, !.plugin = plugin, !.option = option,
                         !.path = pluginPath, !.env0 = env]
  IN /\ UNCHANGED <<env, why>>
     /\ IF v # "ok"
        THEN /\ job' = [job EXCEPT ![c] = Ended(j, v)]
             /\ Write(c, UnknownService)
             /\ UNCHANGED st
        ELSE /\ job' = [job EXCEPT ![c] = j]
             /\ st' = [st EXCEPT ![c] = "resolve"]
             /\ UNCHANGED out

\* the command leaves the loop: the handler returns and the socket is closed
Leave(c, reason) ==
  /\ st' = [st EXCEPT ![c] = "closed"]
  /\ why' = [why EXCEPT ![c] = reason]
  /\ UNCHANGED <<env, out, job>>

\* the slip of answering quit like an unknown command and reading on
QuitGoesOn(c) == Reply(c, Usage)

\* case "quit": return
Quit(c) == Leave(c, "quit")

\* the body of the command loop of handleConnection for one line
Dispatch(c, line) ==
  \E parts \in {Fields(line)} :
  \E arg \in {IF Len(parts) > 1 THEN parts[2] ELSE <<>>} :
  LET cmd == parts[1]
  IN IF Len(parts) = 0 THEN Reply(c, Usage)
     ELSE IF cmd = S_cap THEN Reply(c, <<"cap multigraph", NL>>)
     ELSE IF cmd = S_version THEN Reply(c, <<"munin node version: ", version, NL>>)
     ELSE IF cmd = S_nodes THEN Reply(c, <<HostName, NL, ".", NL>>)
     ELSE IF cmd = S_list
          THEN \E readable \in BOOLEAN : Reply(c, listPlugins(fs, readable) \o <<NL>>)
     ELSE IF cmd = S_config
          THEN IF Len(cmd) > 1 THEN ExecuteStart(c, arg, S_config)
               ELSE Reply(c, UnknownService \o <<NL>>)
     ELSE IF cmd = S_fetch
          THEN IF Len(cmd) > 1 THEN ExecuteStart(c, arg, <<>>)
               ELSE Reply(c, UnknownService \o <<NL>>)
     ELSE IF cmd = S_quit THEN Quit(c)
     ELSE Reply(c, Usage)

\* the slip of reading no line while the plugin of another session runs
ReadLineSerial(c) ==
  /\ st[c] = "await"
  /\ inbuf[c] # <<>>
  /\ \A d \in Conns \ {c} : st[d] # "running"
  /\ \E line \in {Head(inbuf[c])} :
        IF Len(line) >= lineMax
        THEN /\ inbuf' = [inbuf EXCEPT ![c] = Tail(@)]
             /\ Leave(c, "readerr")
             /\ UNCHANGED last
        ELSE /\ inbuf' = [inbuf EXCEPT ![c] = Tail(@)]
             /\ Dispatch(c, line)
             /\ last' = [last EXCEPT ![c] =
                           [line |-> line,
                            reply |-> SubSeq(out'[c], Len(out[c]) + 1, Len(out'[c]))]]
  /\ UNCHANGED <<fs, ip, handlers, eof, sent, guardVars, sectionVars>>

\* the slip of ending the daemon on a line the buffer cannot hold
ReadLineFatal(c) ==
  /\ st[c] = "await"
  /\ inbuf[c] # <<>>
  /\ \E line \in {Head(inbuf[c])} :
        IF Len(line) >= lineMax
        THEN /\ inbuf' = [inbuf EXCEPT ![c] = Tail(@)]
             /\ st' = [d \in Conns |-> "closed"]
             /\ why' = [why EXCEPT ![c] = "readerr"]
             /\ UNCHANGED <<env, out, job, last>>
        ELSE /\ inbuf' = [inbuf EXCEPT ![c] = Tail(@)]
             /\ Dispatch(c, line)
             /\ last' = [last EXCEPT ![c] =
                           [line |-> line,
                            reply |-> SubSeq(out'[c], Len(out[c]) + 1, Len(out'[c]))]]
  /\ UNCHANGED <<fs, ip, handlers, eof, sent, guardVars, sectionVars>>

\* scanner.Scan() gives the next line, or fails on a line the buffer of
\* lineMax bytes cannot hold
ReadLine(c) ==
  /\ st[c] = "await"
  /\ inbuf[c] # <<>>
  /\ \E line \in {Head(inbuf[c])} :
        IF Len(line) >= lineMax
        THEN /\ inbuf' = [inbuf EXCEPT ![c] = Tail(@)]
             /\ Leave(c, "readerr")
             /\ UNCHANGED last
        ELSE /\ inbuf' = [inbuf EXCEPT ![c] = Tail(@)]
             /\ Dispatch(c, line)
             /\ last' = [last EXCEPT ![c] =
                           [line |-> line,
                            reply |-> SubSeq(out'[c], Len(out[c]) + 1, Len(out'[c]))]]
  /\ UNCHANGED <<fs, ip, handlers, eof, sent, guardVars, sectionVars>>

\* scanner.Scan() returns false at the end of the stream
ReadEOF(c) ==
  /\ st[c] = "await"
  /\ inbuf[c] = <<>>
  /\ eof[c]
  /\ Leave(c, "eof")
  /\ UNCHANGED <<fs, ip, handlers, inbuf, eof, last, sent, guardVars, sectionVars>>

\* scanner.Scan() returns false on a read error of the socket
ReadError(c) ==
  /\ st[c] = "await"
  /\ Leave(c, "readerr")
  /\ UNCHANGED <<fs, ip, handlers, inbuf, eof, last, sent, guardVars, sectionVars>>

(***************************************************************************)
(* Plugin executor: environment and subprocess                             *)
(***************************************************************************)
\* loadPluginConfig: os.Open fails
ResolveOpenFail(c) ==
  /\ st[c] = "resolve"
  /\ job[c].pos = 1
  /\ Fail(c, "config")
  /\ UNCHANGED <<fs, env, ip, handlers, inbuf, eof, why, sent, guardVars, sectionVars>>

\* the slip of going on to the spawn after a line of the file was refused
ResolveStepUnchecked(c) ==
  /\ st[c] = "resolve"
  /\ \E j \in {job[c]} :
     \E possibleSections \in {generatePossibleSections(j.plugin)} :
     \E r \in {ScanFrom(PluginConfig, possibleSections, j.pos, j.section)} :
        IF r.kind = "set"
        THEN /\ env' = Setenv(env, r.key, r.value)
             /\ job' = [job EXCEPT ![c].pos = r.pos + 1, ![c].section = r.section,
                                   ![c].sets = @ + 1]
             /\ UNCHANGED <<st, out, last>>
        ELSE /\ st' = [st EXCEPT ![c] = "spawn"]
             /\ job' = [job EXCEPT ![c].pos = r.pos, ![c].section = r.section,
                                   ![c].err = IF r.kind = "error" THEN "config" ELSE @]
             /\ UNCHANGED <<env, out, last>>
  /\ UNCHANGED <<fs, ip, handlers, inbuf, eof, why, sent, guardVars, sectionVars>>

\* loadPluginConfig: the scanning loop up to its next os.Setenv, its
\* failure or the end of the file
ResolveStep(c) ==
  /\ st[c] = "resolve"
  /\ \E j \in {job[c]} :
     \E possibleSections \in {generatePossibleSections(j.plugin)} :
     \E r \in {ScanFrom(PluginConfig, possibleSections, j.pos, j.section)} :
        IF r.kind = "set"
        THEN /\ env' = Setenv(env, r.key, r.value)
             /\ job' = [job EXCEPT ![c].pos = r.pos + 1, ![c].section = r.section,
                                   ![c].sets = @ + 1]
             /\ UNCHANGED <<st, out, last>>
        ELSE IF r.kind = "error"
        THEN /\ Fail(c, "config")
             /\ UNCHANGED env
        ELSE /\ st' = [st EXCEPT ![c] = "spawn"]
             /\ job' = [job EXCEPT ![c].pos = r.pos, ![c].section = r.section]
             /\ UNCHANGED <<env, out, last>>
  /\ UNCHANGED <<fs, ip, handlers, inbuf, eof, why, sent, guardVars, sectionVars>>

\* exec.Command(pluginPath, option) and the start of cmd.Output(): the
\* child inherits the environment table as it is now
Spawn(c) ==
  /\ st[c] = "spawn"
  /\ \E real \in {RealPath(fs, job[c].path, 3)} :
        IF Lstat(fs, real).kind = "file"
        THEN /\ job' = [job EXCEPT ![c].exec = real, ![c].seen = env,
                                   ![c].argv = <<job[c].path, job[c].option>>]
             /\ st' = [st EXCEPT ![c] = "running"]
             /\ UNCHANGED <<out, last>>
        ELSE Fail(c, "exec")
  /\ UNCHANGED <<fs, env, ip, handlers, inbuf, eof, why, sent, guardVars, sectionVars>>

\* cmd.Output() returns: the plugin has written output and exited
PluginExit(c, output, ok) ==
  /\ st[c] = "running"
  /\ IF ok
     THEN /\ Write(c, output \o <<".", NL>>)
          /\ last' = [last EXCEPT ![c].reply = @ \o output \o <<".", NL>>]
          /\ job' = [job EXCEPT ![c] = Ended(@, "none")]
          /\ st' = [st EXCEPT ![c] = "await"]
     ELSE Fail(c, "exec")
  /\ UNCHANGED <<fs, env, ip, handlers, inbuf, eof, why, sent, guardVars, sectionVars>>

(***************************************************************************)
(* Other processes                                                         *)
(***************************************************************************)
\* another process replaces the regular file at path by a symbolic link to
\* target, at any moment between the steps of the daemon
Replace(path, target) ==
  /\ Lstat(fs, path).kind = "file"
  /\ fs' = [fs EXCEPT ![path] = Link(target)]
  /\ UNCHANGED <<env, connVars, guardVars, sectionVars>>

(***************************************************************************)
(* Specifications                                                          *)
(***************************************************************************)
\* several clients at once
Next ==
  \/ \E c \in Conns, addr \in ClientIPs : Accept(c, addr)
  \/ \E c \in Conns, line \in SharedLines : ClientSend(c, line)
  \/ \E c \in Conns : HandlerStart(c)
  \/ \E c \in Conns : ReadLine(c)
  \/ \E c \in Conns : ResolveStep(c)
  \/ \E c \in Conns : Spawn(c)
  \/ \E c \in Conns, o \in SharedOutputs : PluginExit(c, o, TRUE)

Spec == Init /\ [][Next]_vars

\* several clients at once, every goroutine that can take a step is
\* scheduled in the end; a client may stay silent and a plugin may never exit
Fairness ==
  \A c \in Conns :
    /\ WF_vars(HandlerStart(c))
    /\ WF_vars(ReadLine(c))
    /\ WF_vars(ResolveStep(c))
    /\ WF_vars(Spawn(c))

SpecFair == Init /\ [][Next]_vars /\ Fairness

\* one session, whose client tries every command and every plugin name
NextSession ==
  \/ \E addr \in ClientIPs : Accept(1, addr)
  \/ \E line \in SessionLines : ClientSend(1, line)
  \/ ClientClose(1)
  \/ HandlerStart(1)
  \/ ReadLine(1)
  \/ ReadEOF(1)
  \/ ReadError(1)
  \/ ResolveOpenFail(1)
  \/ ResolveStep(1)
  \/ Spawn(1)
  \/ \E o \in PluginOutputs, ok \in BOOLEAN : PluginExit(1, o, ok)

SpecSession == Init /\ [][NextSession]_vars

\* one session, while another process replaces the plugin x by a link to a
\* file outside the plugin directory
RaceLines == { S_fetch \o <<" ", "x">>, S_config \o <<" ", "x">>, S_fetch \o <<" ", "y">> }

NextRace ==
  \/ \E addr \in ClientIPs : Accept(1, addr)
  \/ \E line \in RaceLines : ClientSend(1, line)
  \/ HandlerStart(1)
  \/ ReadLine(1)
  \/ ResolveStep(1)
  \/ Spawn(1)
  \/ \E o \in SharedOutputs : PluginExit(1, o, TRUE)
  \/ Replace(<<"/", "p", "/", "x">>, <<"/", "o", "/", "y">>)

SpecRace == Init /\ [][NextRace]_vars

\* the access guard alone, asked about an address and an allow list
GuardIPs ==
  ClientIPs \cup { <<"1", "9", "2", ".", "1", "6", "8", ".", "1", ".", "5">>,
                   <<"1", "0", ".", "0", ".", "0", ".", "9">> }

GuardPatterns ==
  { <<"(">>, <<"*">>,
    <<"^", "1", "0", "\\", ".">>,
    <<"0", ".", "1">>,
    <<"9", ".", "*", "0", "$">>,
    <<"^", "1", "9", "2", "\\", ".", "1", "6", "8", "\\", ".", "1", "\\", ".", ".", "*", "$">> }

PatternLists == UNION { [1..n -> GuardPatterns] : n \in 0..MaxPats }

InitGuard ==
  /\ InitConns
  /\ gIP \in GuardIPs
  /\ gPats \in PatternLists
  /\ gRes = "none"
  /\ NoSectionQuery

GuardAsk ==
  /\ gRes = "none"
  /\ gRes' = IF isAllowedIP(gIP, gPats) THEN "allowed" ELSE "denied"
  /\ UNCHANGED <<fs, env, connVars, gIP, gPats, sectionVars>>

NextGuard == GuardAsk

SpecGuard == InitGuard /\ [][NextGuard]_vars

\* the builder of candidate sections alone, asked about a plugin name
S_diskio_sda == <<"d", "i", "s", "k", "i", "o", "_", "s", "d", "a">>

SectionNames ==
  UNION { [1..n -> {"a", "b", "_"}] : n \in 0..MaxName } \cup {S_diskio_sda}

InitSections ==
  /\ InitConns
  /\ NoGuardQuery
  /\ qName \in SectionNames
  /\ qSections = <<>>

SectionsAsk ==
  /\ qSections = <<>>
  /\ qSections' = generatePossibleSections(qName)
  /\ UNCHANGED <<fs, env, connVars, guardVars, qName>>

NextSections == SectionsAsk

SpecSections == InitSections /\ [][NextSections]_vars

(***************************************************************************)
(* Properties                                                              *)
(***************************************************************************)
\* what an invocation of plugin leaves in the table e when nothing else
\* touches the table
ResolvedOver(plugin, e) ==
  LoadFrom(PluginConfig, generatePossibleSections(plugin), 1, <<>>, e).env

\* C1: the environment a plugin subprocess sees is the environment its own
\* invocation started from with the values resolved for its own plugin name
\* on top, whatever a concurrent invocation on another connection resolves
\* in the meantime.
C1_OwnEnvironmentOnly ==
  \A c \in Conns :
    st[c] = "running" => job[c].seen = ResolvedOver(job[c].plugin, job[c].env0)

\* path-segment containment of an absolute path in an absolute directory
ContainedIn(dir, path) ==
  path = dir \/ HasPrefix(path, IF dir = Slash THEN dir ELSE dir \o Slash)

\* C2: a subprocess is spawned only for a candidate whose canonical path is
\* contained in the canonical plugin directory as a path-segment prefix.
C2_SpawnOnlyInsideDirectory ==
  \A c \in Conns :
    job[c].exec # <<>> => ContainedIn(Abs(PluginFolder), Abs(job[c].path))

NoSeparator(name) == ~InSeq("/", name)

IsDirectChild(path) == ChildName(Abs(PluginFolder), path) # <<>>

PathSecurityErrors == {"outside", "lstat", "symlink"}

C4_SymlinkNeverResolvedNorRun ==
  \A c \in Conns :
    (job[c].on /\ Lstat(fs, PluginFolder \o Slash \o job[c].plugin).kind = "symlink") =>
      /\ st[c] \notin {"resolve", "spawn", "running"}
      /\ job[c].err = "symlink"
      /\ job[c].sets = 0
      /\ job[c].exec = <<>>

\* a link whose target lies inside the plugin directory was refused
C4_Witness ==
  \E c \in Conns :
    /\ job[c].plugin = <<"k">>
    /\ ContainedIn(PluginFolder, Lstat(fs, job[c].path).target)
    /\ job[c].err = "symlink"
    /\ last[c].reply = UnknownService

\* a pattern that compiles and matches somewhere in the address
Accepts(pattern, addr) ==
  /\ Compile(pattern).ok
  /\ \E i \in 1..(Len(addr) + 1) : MatchHere(Compile(pattern).atoms, 1, addr, i)

Orderings(n) == { f \in [1..n -> 1..n] : \A i, j \in 1..n : f[i] = f[j] => i = j }

\* C5: the guard answers true exactly when some well-formed pattern of the
\* list matches somewhere in the address; the empty list denies, a malformed
\* pattern does not end the evaluation, and the order of the patterns does
\* not matter.
C5_AllowedIffSomePatternMatches ==
  gRes # "none" =>
    /\ (gRes = "allowed") <=> (\E i \in 1..Len(gPats) : Accepts(gPats[i], gIP))
    /\ gPats = <<>> => gRes = "denied"
    /\ \A f \in Orderings(Len(gPats)) :
         isAllowedIP(gIP, [i \in 1..Len(gPats) |-> gPats[f[i]]]) = (gRes = "allowed")

\* a malformed pattern stood before the pattern that let the address in
C5_Witness ==
  /\ gRes = "allowed"
  /\ Len(gPats) = 2
  /\ ~Compile(gPats[1]).ok
  /\ Accepts(gPats[2], gIP)


\* the addresses in which no well-formed pattern of the allow list matches
RefusedIPs ==
  { addr \in ClientIPs : ~\E i \in 1..Len(AllowedIPs) : Accepts(AllowedIPs[i], addr) }

Refused(addr) == addr \in RefusedIPs

\* C6: the guard decides in the accept loop: a connection from a refused
\* address is closed with no session handler started for it and no byte
\* written to it, a connection from an allowed address gets exactly one
\* session handler.
C6_GateBeforeWorker ==
  \A c \in Conns :
    IF st[c] = "idle" THEN handlers[c] = 0 /\ out[c] = <<>>
    ELSE IF Refused(ip[c])
         THEN st[c] = "denied" /\ handlers[c] = 0 /\ out[c] = <<>>
         ELSE st[c] # "denied" /\ handlers[c] = 1

\* one connection was refused and closed, another was served
C6_Witness ==
  \E c, d \in Conns :
    /\ st[c] = "denied"
    /\ Refused(ip[c])
    /\ handlers[d] = 1
    /\ last[d].reply # <<>>

\* the bytes end with a line that holds "." and nothing else
EndsWithDotLine(bytes) ==
  LET n == Len(bytes)
  IN /\ n >= 2
     /\ bytes[n] = NL
     /\ bytes[n - 1] = "."
     /\ n > 2 => bytes[n - 2] = NL

\* C7: after a successful config or fetch the bytes written to the client
\* end with a line containing only ".", whatever the plugin wrote.
C7_ReplyEndsWithDotLine ==
  \A c \in Conns :
    (st[c] = "await" /\ job[c].on /\ job[c].err = "none") => EndsWithDotLine(out[c])

Command(line) == IF Fields(line) = <<>> THEN <<>> ELSE Fields(line)[1]

\* C8: the reply to list is the names of the non-directory entries joined by
\* single spaces and ended by exactly one newline, or an empty result when
\* the directory cannot be read; the session stays in its command loop.
C8_ListReplyExact ==
  \A c \in Conns :
    Command(last[c].line) = S_list =>
      /\ last[c].reply \in {listPlugins(fs, TRUE), <<>>, <<NL>>}
      /\ st[c] = "closed" => why[c] \in {"eof", "readerr"}

\* the step in which the handler of c takes a quit line from its input
ReadsQuit(c) ==
  /\ st[c] = "await"
  /\ inbuf[c] # <<>>
  /\ inbuf'[c] = Tail(inbuf[c])
  /\ Len(Head(inbuf[c])) < lineMax
  /\ Command(Head(inbuf[c])) = S_quit

\* the step in which the handler of c takes any other line from its input
ReadsOther(c) ==
  /\ st[c] = "await"
  /\ inbuf[c] # <<>>
  /\ inbuf'[c] = Tail(inbuf[c])
  /\ Len(Head(inbuf[c])) < lineMax
  /\ Command(Head(inbuf[c])) # S_quit

\* the step in which the scanner of c meets a line it cannot hold
ReadsTooLong(c) ==
  /\ st[c] = "await"
  /\ inbuf[c] # <<>>
  /\ inbuf'[c] = Tail(inbuf[c])
  /\ Len(Head(inbuf[c])) >= lineMax

\* C9: reading quit writes nothing and closes the session; once closed,
\* nothing more is written to the connection and no further line of its
\* input is taken or dispatched.
C9_QuitIsFinal ==
  [][\A c \in Conns :
       /\ ReadsQuit(c) => (st'[c] = "closed" /\ why'[c] = "quit" /\ out'[c] = out[c])
       /\ st[c] = "closed" =>
            /\ st'[c] = "closed"
            /\ out'[c] = out[c]
            /\ inbuf'[c] = inbuf[c]
            /\ job'[c] = job[c]
            /\ last'[c] = last[c]]_vars

\* a line sent after quit stays unread in the input of the closed session
C9_Witness ==
  \E c \in Conns :
    /\ st[c] = "closed"
    /\ why[c] = "quit"
    /\ inbuf[c] # <<>>
    /\ last[c] = [line |-> S_quit, reply |-> <<>>]

\* C10: the session is closed only by a step that reads quit, that fails to
\* read, or that finds the end of the stream; a step that reads another
\* line, and every step of an executor call, leaves the session in its
\* command loop.
C10_LoopEndsOnlyOnQuitErrorOrEnd ==
  [][\A c \in Conns :
       /\ (st[c] # "closed" /\ st'[c] = "closed") =>
            /\ st[c] = "await"
            /\ out'[c] = out[c]
            /\ \/ ReadsQuit(c) /\ why'[c] = "quit"
               \/ ReadsTooLong(c) /\ why'[c] = "readerr"
               \/ inbuf'[c] = inbuf[c] /\ why'[c] = "readerr"
               \/ inbuf'[c] = inbuf[c] /\ why'[c] = "eof" /\ eof[c] /\ inbuf[c] = <<>>
       /\ ReadsOther(c) => st'[c] \in {"await", "resolve"}
       /\ st[c] \in {"resolve", "spawn", "running"} =>
            st'[c] \in {"await", "resolve", "spawn", "running"}]_vars

\* after a fetch that the executor refused, the next line was answered
C10_Witness ==
  \E c \in Conns :
    /\ st[c] = "await"
    /\ out[c] = Banner \o UnknownService \o <<"cap multigraph", NL>>

\* C11: whenever the executor call of a config or fetch has failed, for
\* whatever cause, the reply to that line (the last line read, unless a quit
\* was read after it) is the line "# Unknown service"
\* followed by a line holding only ".", with no path and no error detail, the
\* same bytes for every cause.
C11_SameReplyForEveryFailure ==
  \A c \in Conns :
    (job[c].on /\ job[c].err \notin {"", "none"} /\ why[c] # "quit") =>
      /\ job[c].err \in PathSecurityErrors \cup {"config", "exec"}
      /\ Command(last[c].line) \in {S_config, S_fetch}
      /\ last[c].reply = <<"# Unknown service", NL, ".", NL>>

\* a plugin that was started and exited with a failure got the same reply
C11_Witness ==
  \E c \in Conns :
    /\ job[c].err = "exec"
    /\ job[c].exec # <<>>
    /\ last[c].reply = <<"# Unknown service", NL, ".", NL>>

\* the section named by the most recent [...] header above line i of the
\* file, as a one-element sequence, or <<>> when no header stands above it
RECURSIVE HeaderAbove(_, _)
HeaderAbove(lines, i) ==
  IF i <= 1 THEN <<>>
  ELSE LET line == TrimSpace(lines[i - 1])
       IN IF HasPrefix(line, <<"[">>) /\ HasSuffix(line, <<"]">>)
          THEN <<SubSeq(line, 2, Len(line) - 1)>>
          ELSE HeaderAbove(lines, i - 1)

\* C12: a line "env.KEY value" is applied for a plugin only if the most
\* recent [...] header above it names one of the candidate sections of the
\* plugin; a header that is not a candidate closes the open section, so the
\* lines after it are ignored even when a candidate section stood earlier in
\* the file.
C12_AppliedOnlyUnderCandidateHeader ==
  \A c \in Conns :
    (st[c] = "resolve" /\ job[c].sets > 0) =>
      LET h == HeaderAbove(PluginConfig, job[c].pos - 1)
      IN /\ h # <<>>
         /\ InSeq(h[1], generatePossibleSections(job[c].plugin))

\* the positions of the underscores of a name, in increasing order
RECURSIVE UnderscoresFrom(_, _)
UnderscoresFrom(name, i) ==
  IF i > Len(name) THEN <<>>
  ELSE (IF name[i] = "_" THEN <<i>> ELSE <<>>) \o UnderscoresFrom(name, i + 1)

\* the first i tokens of a name joined by "_": the name up to its i-th
\* underscore, or the whole name when it has fewer than i underscores
FirstTokens(name, i) ==
  LET u == UnderscoresFrom(name, 1)
  IN IF i <= Len(u) THEN SubSeq(name, 1, u[i] - 1) ELSE name

\* C13: for a plugin name of n tokens (n - 1 underscores) the candidate
\* sections are "*" and, for i from n down to 1, the first i tokens joined
\* by "_" with "_*" appended: n + 1 candidates and nothing else; the bare
\* plugin name is not a candidate, and diskio_sda gives "*", "diskio_sda_*",
\* "diskio_*".
C13_CandidateSectionsExact ==
  qSections # <<>> =>
    LET n == Len(UnderscoresFrom(qName, 1)) + 1
    IN /\ Len(qSections) = n + 1
       /\ qSections[1] = <<"*">>
       /\ \A i \in 1..n : qSections[n - i + 2] = FirstTokens(qName, i) \o <<"_", "*">>
       /\ ~InSeq(qName, qSections)
       /\ qName = S_diskio_sda =>
            qSections = << <<"*">>, S_diskio_sda \o <<"_", "*">>,
                           <<"d", "i", "s", "k", "i", "o", "_", "*">> >>

\* the candidates of diskio_sda were built
C13_Witness ==
  /\ qName = S_diskio_sda
  /\ Len(qSections) = 3

\* C14: a plugin subprocess is started with at most one argument after the
\* program path: exactly "config" for a config command, and none for a
\* fetch command (the argument is left out, not passed as an empty string).
C14_ArgumentList ==
  \A c \in Conns :
    job[c].argv # <<>> =>
      /\ Len(job[c].argv) <= 2
      /\ Command(last[c].line) = S_config => Tail(job[c].argv) = <<S_config>>
      /\ Command(last[c].line) = S_fetch => Tail(job[c].argv) = <<>>

\* what the daemon's environment held when it was started
StartEnv == <<>>

\* C15: invocations leave nothing behind: the environment a plugin
\* subprocess sees is the environment the daemon was started with and the
\* values resolved for its own plugin name on top, whether or not another
\* invocation (completed, or failed while resolving) ran before it.
C15_NothingLeftBehind ==
  \A c \in Conns :
    st[c] = "running" => job[c].seen = ResolvedOver(job[c].plugin, StartEnv)

\* C16: a line the scanner cannot hold (lineMax characters or more before
\* the newline) ends the session that sent it and nothing else: that session
\* is closed without the line being dispatched or answered, the state of
\* every other connection and the environment are untouched, and afterwards
\* every other session can still read its next line and the listener can
\* still accept a connection.
C16_OversizedLineClosesOnlyItsSession ==
  /\ [][\A c \in Conns :
         ReadsTooLong(c) =>
           /\ st'[c] = "closed" /\ why'[c] = "readerr"
           /\ out'[c] = out[c] /\ job'[c] = job[c] /\ last'[c] = last[c]
           /\ env' = env
           /\ \A d \in Conns \ {c} :
                /\ st'[d] = st[d] /\ inbuf'[d] = inbuf[d] /\ out'[d] = out[d]
                /\ job'[d] = job[d] /\ handlers'[d] = handlers[d]]_vars
  /\ [](\A c \in Conns :
         why[c] = "readerr" =>
           \A d \in Conns \ {c} :
             /\ (st[d] = "await" /\ inbuf[d] # <<>>) => ENABLED ReadLine(d)
             /\ st[d] = "spawned" => ENABLED HandlerStart(d)
             /\ (st[d] = "idle" /\ \A e \in Conns : e < d => st[e] # "idle") =>
                  \A addr \in ClientIPs : ENABLED Accept(d, addr))

\* one session was closed by an oversized line while the plugin asked for
\* on another session was running
C16_Witness ==
  \E c, d \in Conns :
    /\ st[c] = "closed"
    /\ why[c] = "readerr"
    /\ last[c] = NoLine
    /\ st[d] = "running"

\* C17: within one call of the executor the steps are hard gates in the
\* order containment check, symbolic-link check, environment resolution,
\* spawn: the resolution is entered only with a path that passed both checks,
\* the spawn only after the resolution reached the end of the file; a call
\* refused by a check has applied no line of the plugin configuration and
\* spawned nothing, and a call whose resolution failed has spawned nothing.
C17_StepsAreHardGates ==
  \A c \in Conns :
    job[c].on =>
      /\ job[c].err \in PathSecurityErrors =>
           /\ job[c].sets = 0 /\ job[c].pos = 1
           /\ job[c].exec = <<>> /\ job[c].argv = <<>>
           /\ validatePluginPath(fs, job[c].path) = job[c].err
      /\ job[c].err = "config" => (job[c].exec = <<>> /\ job[c].argv = <<>>)
      /\ (st[c] \in {"resolve", "spawn", "running"} \/ job[c].sets > 0 \/ job[c].exec # <<>>) =>
           validatePluginPath(fs, job[c].path) = "ok"
      /\ (st[c] \in {"spawn", "running"} \/ job[c].exec # <<>>) =>
           job[c].pos = Len(PluginConfig) + 1

\* a call whose path passed the checks applied a line of the file, failed on
\* a later line and spawned nothing
C17_Witness ==
  \E c \in Conns :
    /\ Lstat(fs, job[c].path).kind = "file"
    /\ job[c].err = "config"
    /\ job[c].sets > 0
    /\ job[c].exec = <<>>

\* C18: a config or fetch line with no plugin name is a client error: it is
\* answered with the line "# Unknown service" and a line "." without the
\* executor being called, so no path is validated, no line of the plugin
\* configuration is applied and nothing is spawned for it.
C18_MissingArgumentNeverReachesExecutor ==
  \A c \in Conns :
    (Len(Fields(last[c].line)) = 1 /\ Command(last[c].line) \in {S_config, S_fetch}) =>
      /\ ~job[c].on
      /\ st[c] \notin {"resolve", "spawn", "running"}
      /\ last[c].reply = <<"# Unknown service", NL, ".", NL>>

\* C19: workers are independent. While the plugin of one session runs and
\* never exits, or its client is silent, every other session can still read
\* its next line and the listener can still accept and gate a connection;
\* and when every handler that can take a step is scheduled in the end, a
\* session with unread lines reaches the point where all of them are read
\* and answered, unless its own plugin is still running or it was closed.
C19_WorkersAreIndependent ==
  /\ [](\A d \in Conns :
         (st[d] = "running" \/ (st[d] = "await" /\ inbuf[d] = <<>>)) =>
           \A c \in Conns \ {d} :
             /\ (st[c] = "await" /\ inbuf[c] # <<>>) => ENABLED ReadLine(c)
             /\ st[c] = "spawned" => ENABLED HandlerStart(c)
             /\ st[c] = "resolve" => ENABLED ResolveStep(c)
             /\ st[c] = "spawn" => ENABLED Spawn(c)
             /\ (st[c] = "idle" /\ \A e \in Conns : e < c => st[e] # "idle") =>
                  \A addr \in ClientIPs : ENABLED Accept(c, addr))
  /\ \A c \in Conns :
       (st[c] = "await" /\ inbuf[c] # <<>>)
         ~> ((st[c] = "await" /\ inbuf[c] = <<>>) \/ st[c] \in {"running", "closed"})

\* a session was answered and has nothing left to read while the plugin of
\* another session is running
C19_Witness ==
  \E c, d \in Conns :
    /\ st[d] = "running"
    /\ st[c] = "await"
    /\ inbuf[c] = <<>>
    /\ EndsWithDotLine(last[c].reply)

\* C20: the file an invocation spawns is the directory entry that passed
\* its containment and symbolic-link checks: when another process replaces
\* pluginDirectory/name by a symbolic link after the checks and before the
\* spawn, the replacement is not executed; a replacement made before the
\* checks of an invocation is refused by them.
C20_SpawnsTheCheckedEntry ==
  \A c \in Conns :
    /\ job[c].exec # <<>> =>
         /\ job[c].exec = Abs(job[c].path)
         /\ ContainedIn(Abs(PluginFolder), job[c].exec)
    /\ (job[c].on /\ job[c].err = "symlink") => job[c].sets = 0 /\ job[c].exec = <<>>

====
